---- MODULE Spec2Model ----
(***************************************************************************)
(* A model of the Roy-Hart climate survey backend (src/server.js): the      *)
(* submissions table, the POST /submit handler with its await points, the   *)
(* reset and summary routes, and the aggregation pass buildSummary.         *)
(*                                                                          *)
(* Representation of JavaScript data:                                       *)
(*   - a string value is a sequence of one-character strings;               *)
(*   - a number is an integer count of tenths (4 is 40, 2.5 is 25); the     *)
(*     sample numbers and numeric strings have at most one fractional       *)
(*     digit, being 0 or 5, so every sum is exact in binary64 as well;      *)
(*   - an object key is the sequence key.split('_') of its segments, each   *)
(*     a string ("safety_child_safe" is <<"safety","child","safe">>);       *)
(*   - an HMAC digest is a record of what was hashed (HMAC is taken to be   *)
(*     collision free, and two draws of crypto.randomBytes(8) to differ).   *)
(***************************************************************************)
EXTENDS Integers, Sequences, FiniteSets, TLC

VARIABLES
    env,        \* process.env as read at start-up (server.js 13-27)
    tableExists,\* whether the submissions table has been created
    store,      \* the rows of the submissions table, in insertion order
    req,        \* the POST /submit requests being handled, one per slot
    lastRes,    \* the response sent by the latest step, when it handled a
                \* request of another route than /submit
    nonce,      \* how many random digests makeIpHash has drawn
    accepted,   \* history: the addresses whose submissions were accepted
                \* for SURVEY_ID since the last reset (before the start of
                \* the process included)
    everAccepted, \* history: the addresses accepted at least once
    nreq,       \* history: the number of POST /submit requests received
    dashboard   \* the question rows the admin page shows (public/admin.js)

vars == <<env, tableExists, store, req, lastRes, nonce, accepted, everAccepted,
          nreq, dashboard>>

----------------------------------------------------------------------------
(* Bounds of the model.                                                     *)

\* POST /submit requests received in one run
MaxRequests == 2

\* Rows of the table a summary is built from (SpecSummary)
MaxRows == 2

----------------------------------------------------------------------------
(* JavaScript values.                                                       *)

JNum(n) == [t |-> "number", n |-> n, s |-> <<>>, b |-> FALSE]
JStr(s) == [t |-> "string", n |-> 0, s |-> s, b |-> FALSE]
JBool(b) == [t |-> "boolean", n |-> 0, s |-> <<>>, b |-> b]
JNull == [t |-> "null", n |-> 0, s |-> <<>>, b |-> FALSE]
JNested == [t |-> "object", n |-> 0, s |-> <<>>, b |-> FALSE]

\* typeof v
TypeOf(v) == IF v.t = "null" THEN "object" ELSE v.t

Digits == <<"0", "1", "2", "3", "4", "5", "6", "7", "8", "9">>

DigitValue(c) == CHOOSE d \in 0..9 : Digits[d + 1] = c

IsDigit(c) == \E d \in 0..9 : Digits[d + 1] = c

IsWhitespace(c) == c \in {" ", "\t", "\n"}

RECURSIVE NatToString(_)
NatToString(n) ==
    IF n < 10 THEN <<Digits[n + 1]>>
    ELSE NatToString(n \div 10) \o <<Digits[(n % 10) + 1]>>

\* String(n) of a number n (in tenths)
NumberToString(n) ==
    LET a == IF n < 0 THEN -n ELSE n
        sign == IF n < 0 THEN <<"-">> ELSE <<>>
        frac == IF a % 10 = 0 THEN <<>> ELSE <<".", Digits[(a % 10) + 1]>>
    IN  sign \o NatToString(a \div 10) \o frac

\* String(v) of a string, number or boolean
ToJsString(v) ==
    CASE v.t = "string" -> v.s
      [] v.t = "number" -> NumberToString(v.n)
      [] v.t = "boolean" ->
            IF v.b THEN <<"t", "r", "u", "e">> ELSE <<"f", "a", "l", "s", "e">>
      [] OTHER -> <<"n", "u", "l", "l">>

RECURSIVE TrimStart(_)
TrimStart(s) ==
    IF s # <<>> /\ IsWhitespace(Head(s)) THEN TrimStart(Tail(s)) ELSE s

RECURSIVE TrimEnd(_)
TrimEnd(s) ==
    IF s # <<>> /\ IsWhitespace(s[Len(s)])
    THEN TrimEnd(SubSeq(s, 1, Len(s) - 1))
    ELSE s

\* String.prototype.trim
Trim(s) == TrimEnd(TrimStart(s))

RECURSIVE DigitsToNat(_)
DigitsToNat(s) ==
    IF s = <<>> THEN 0
    ELSE 10 * DigitsToNat(SubSeq(s, 1, Len(s) - 1)) + DigitValue(s[Len(s)])

AllDigits(s) == \A i \in 1..Len(s) : IsDigit(s[i])

NaN == [nan |-> TRUE, n |-> 0]

Finite(n) == [nan |-> FALSE, n |-> n]

\* The value (in tenths) of the decimal literal with integer digits ip and
\* fraction digits fp, NaN when it is not a literal of that shape
DecimalToNumber(neg, ip, fp) ==
    IF /\ AllDigits(ip) /\ AllDigits(fp)
       /\ Len(ip) + Len(fp) >= 1
       /\ Len(fp) <= 1
    THEN Finite((IF neg THEN -1 ELSE 1) *
                (10 * DigitsToNat(ip) +
                 (IF fp = <<>> THEN 0 ELSE DigitValue(fp[1]))))
    ELSE NaN

\* The position of the first "." of u, Len(u) + 1 when it has none
DotIndex(u) ==
    IF \E i \in 1..Len(u) : u[i] = "."
    THEN CHOOSE i \in 1..Len(u) : u[i] = "." /\ \A j \in 1..(i - 1) : u[j] # "."
    ELSE Len(u) + 1

SplitToNumber(neg, u, dot) ==
    DecimalToNumber(neg, SubSeq(u, 1, dot - 1), SubSeq(u, dot + 1, Len(u)))

UnsignedToNumber(neg, u) == SplitToNumber(neg, u, DotIndex(u))

TrimmedToNumber(s) ==
    IF s = <<>> THEN Finite(0)
    ELSE UnsignedToNumber(Head(s) = "-",
                          IF Head(s) \in {"-", "+"} THEN Tail(s) ELSE s)

\* Number(s) of a string: surrounding white space is ignored, the empty
\* string is 0, a signed decimal literal with at most one fractional digit is
\* its value (in tenths), and anything else made of the characters of the
\* sample values is NaN.
StringToNumber(str) == TrimmedToNumber(Trim(str))

----------------------------------------------------------------------------
(* Object keys.                                                             *)

\* key.length
KeyLength(key) ==
    LET RECURSIVE Sum(_)
        Sum(i) == IF i = 0 THEN 0 ELSE Len(key[i]) + Sum(i - 1)
    IN  Sum(Len(key)) + (Len(key) - 1)

\* key.endsWith('_free')
EndsWithFree(key) == Len(key) >= 2 /\ key[Len(key)] = "free"

\* The property names an object literal {} inherits from Object.prototype:
\* questions[key] is truthy for them before anything was stored under key.
ObjectPrototypeKeys ==
    { <<"constructor">>, <<"toString">>, <<"valueOf">>, <<"hasOwnProperty">>,
      <<"isPrototypeOf">>, <<"toLocaleString">>, <<"propertyIsEnumerable">>,
      <<"", "", "proto", "", "">> }

----------------------------------------------------------------------------
(* Configuration (server.js 13-27).                                         *)

SURVEY_ID == env.SURVEY_ID
ADMIN_TOKEN == env.ADMIN_TOKEN
APPS_SCRIPT_URL == env.APPS_SCRIPT_URL
IP_WHITELIST_PREFIXES == env.IP_WHITELIST_PREFIXES

\* A survey id other than the configured one (rows of an earlier deployment)
OtherSurveyId == "royhart_parent_family_climate_2024"

----------------------------------------------------------------------------
(* Helpers (server.js 78-119).                                              *)

\* ip.startsWith(prefix)
StartsWith(ip, prefix) ==
    Len(prefix) <= Len(ip) /\ SubSeq(ip, 1, Len(prefix)) = prefix

\* Mutant: an empty prefix is kept in the list, and matches every address
isIpWhitelistedEmptyPrefix(ip) == ip # <<>>

isIpWhitelisted(ip) ==
    IF ip = <<>> \/ IP_WHITELIST_PREFIXES = {} THEN FALSE
    ELSE \E prefix \in IP_WHITELIST_PREFIXES : StartsWith(ip, prefix)

UnknownIp == <<"unknown_ip">>

\* Mutant: allowMultiple is ignored
makeIpHashOnePerIp(ip, allowMultiple, rnd) ==
    [base |-> IF ip = <<>> THEN <<"unknown_ip">> ELSE ip, rnd |-> 0]

\* The digest of `${base}:${Date.now()}:${rand}` when allowMultiple, else of
\* base; rnd stands for the pair (Date.now(), rand) of this call.
makeIpHash(ip, allowMultiple, rnd) ==
    LET base == IF ip = <<>> THEN UnknownIp ELSE ip
    IN  IF allowMultiple
        THEN [base |-> base, rnd |-> rnd]
        ELSE [base |-> base, rnd |-> 0]

MaxKeys == 1000
MaxKeyLen == 200
MaxValueLen == 2000

\* A request body: undefined, null, an array, a string, or an object with
\* its own enumerable properties f (a function from keys to values).
Body(t, f) == [t |-> t, f |-> f]

NoFields == [k \in {} |-> JNull]

\* Mutant: the limits are excluded
validatePayloadOffByOne(payload) ==
    IF payload.t # "object"
    THEN TRUE
    ELSE LET keys == DOMAIN payload.f
         IN  IF Cardinality(keys) >= MaxKeys THEN TRUE
             ELSE \E k \in keys :
                    \/ KeyLength(k) >= MaxKeyLen
                    \/ TypeOf(payload.f[k]) \notin {"string", "number", "boolean"}
                    \/ Len(ToJsString(payload.f[k])) >= MaxValueLen

\* validatePayload: TRUE when an error message is returned
validatePayload(payload) ==
    IF payload.t # "object"
    THEN TRUE
    ELSE LET keys == DOMAIN payload.f
         IN  IF Cardinality(keys) > MaxKeys THEN TRUE
             ELSE \E k \in keys :
                    \/ KeyLength(k) > MaxKeyLen
                    \/ TypeOf(payload.f[k]) \notin {"string", "number", "boolean"}
                    \/ Len(ToJsString(payload.f[k])) > MaxValueLen

----------------------------------------------------------------------------
(* buildSummary (server.js 231-297).                                        *)

NoQuestions == [k \in {} |-> 0]

\* sum / responses of two numbers, as a fraction
NullAverage == [kind |-> "null", num |-> 0, den |-> 1]

Divide(a, b) ==
    IF b = 0 THEN [kind |-> "NaN", num |-> 0, den |-> 1]
    ELSE [kind |-> "number", num |-> a, den |-> b]

AllNA == "All / N/A"

\* f with f[k] set to v, k added to its domain when new
Put(f, k, v) == [x \in (DOMAIN f) \cup {k} |-> IF x = k THEN v ELSE f[x]]

NewQuestion(key) ==
    [key |-> key, responses |-> 0, sum |-> 0,
     counts |-> [c \in {10, 20, 30, 40, 50} |-> 0], type |-> "scale"]

NewFreeText(key) ==
    [key |-> key, responses |-> 0, byBuilding |-> (AllNA :> <<>>)]

\* q.responses += 1; q.sum += num; q.counts[num] = (q.counts[num] || 0) + 1
CountResponse(q, num) ==
    [q EXCEPT !.responses = @ + 1,
              !.sum = @ + num,
              !.counts = Put(@, num, (IF num \in DOMAIN @ THEN @[num] ELSE 0) + 1)]

\* Mutant: the entry of a question is created before its value is checked
SummaryScaleEntryFirst(acc, key, num) ==
    IF num.nan \/ num.n < 10 \/ num.n > 50
    THEN IF key \in DOMAIN acc.questions \/ key \in ObjectPrototypeKeys
         THEN acc
         ELSE [acc EXCEPT !.questions = Put(@, key, NewQuestion(key))]
    ELSE IF key \in DOMAIN acc.questions
    THEN [acc EXCEPT !.questions[key] = CountResponse(@, num.n)]
    ELSE IF key \in ObjectPrototypeKeys
    THEN [acc EXCEPT !.failed = TRUE]
    ELSE [acc EXCEPT !.questions =
             Put(@, key, CountResponse(NewQuestion(key), num.n))]

\* The numeric branch of the inner loop (server.js 266-282) for the number
\* num = Number(val).  acc.failed: an exception was thrown, which ends the
\* pass.  For a key that {} inherits, questions[key] is a member of
\* Object.prototype, which has no counts: q.counts[num] throws a TypeError.
SummaryScale(acc, key, num) ==
    IF num.nan \/ num.n < 10 \/ num.n > 50 THEN acc
    ELSE IF key \in DOMAIN acc.questions
    THEN [acc EXCEPT !.questions[key] = CountResponse(@, num.n)]
    ELSE IF key \in ObjectPrototypeKeys
    THEN [acc EXCEPT !.failed = TRUE]
    ELSE [acc EXCEPT !.questions =
             Put(@, key, CountResponse(NewQuestion(key), num.n))]

\* Mutant: an empty value is collected as well
SummaryFreeTextKeepsEmpty(acc, key, val) ==
    LET ft == IF key \in DOMAIN acc.freeText
              THEN acc.freeText[key] ELSE NewFreeText(key)
    IN  [acc EXCEPT !.freeText = Put(@, key,
            [ft EXCEPT !.responses = @ + 1,
                       !.byBuilding[AllNA] = Append(@, val)])]

\* The free-text branch of the inner loop (server.js 249-264) for the
\* trimmed value val
SummaryFreeText(acc, key, val) ==
    IF val = <<>> THEN acc
    ELSE LET ft == IF key \in DOMAIN acc.freeText
                   THEN acc.freeText[key] ELSE NewFreeText(key)
         IN  [acc EXCEPT !.freeText = Put(@, key,
                 [ft EXCEPT !.responses = @ + 1,
                            !.byBuilding[AllNA] = Append(@, val)])]

\* const val = rawVal == null ? '' : String(rawVal).trim() and the branch on
\* the key
SummaryValue(acc, key, val) ==
    IF acc.failed THEN acc
    ELSE IF EndsWithFree(key) THEN SummaryFreeText(acc, key, val)
    ELSE SummaryScale(acc, key, StringToNumber(val))

\* The body of the inner loop (server.js 245-283) for one entry of a payload
SummaryField(acc, key, rawVal) ==
    SummaryValue(acc, key,
                 IF rawVal.t = "null" THEN <<>> ELSE Trim(ToJsString(rawVal)))

\* for (const [key, rawVal] of Object.entries(payload)): the entries of one
\* payload have distinct keys and each changes the entry of its own key only
\* (or throws), so the loop is computed entry by entry from acc.
SummaryEntries(acc, payload) ==
    LET keys == DOMAIN payload
        one(k) == SummaryField(acc, k, payload[k])
        merge(old, new(_)) ==
            [k \in (DOMAIN old) \cup {x \in keys : x \in DOMAIN new(x)} |->
                IF k \in keys /\ k \in DOMAIN new(k) THEN new(k)[k] ELSE old[k]]
        qs(k) == one(k).questions
        fs(k) == one(k).freeText
    IN  IF acc.failed \/ \E k \in keys : one(k).failed
        THEN [acc EXCEPT !.failed = TRUE]
        ELSE [failed |-> FALSE,
              questions |-> merge(acc.questions, qs),
              freeText |-> merge(acc.freeText, fs)]

\* for (const row of rows)
RECURSIVE SummaryRows(_, _)
SummaryRows(acc, rows) ==
    IF rows = <<>> THEN acc
    ELSE SummaryRows(
            SummaryEntries(acc, Head(rows).payload),
            Tail(rows))

\* q.average = q.responses ? q.sum / q.responses : null
WithAverage(q) ==
    [key |-> q.key, responses |-> q.responses, sum |-> q.sum,
     counts |-> q.counts, type |-> q.type,
     average |-> IF q.responses # 0 THEN Divide(q.sum, q.responses)
                 ELSE NullAverage]

\* Mutant: the SELECT has no WHERE clause
SelectRowsOfAllSurveys(table, surveyId) == table

\* SELECT payload FROM submissions WHERE survey_id = $1
SelectRows(table, surveyId) ==
    SelectSeq(table, LAMBDA row : row.survey_id = surveyId)

\* buildSummary over the table as the SELECT reads it; ok is FALSE when the
\* pass threw.
buildSummary(table, surveyId) ==
    LET rows == SelectRows(table, surveyId)
        acc == SummaryRows(
                  [failed |-> FALSE, questions |-> NoQuestions,
                   freeText |-> NoQuestions], rows)
    IN  IF acc.failed
        THEN [ok |-> FALSE, surveyId |-> surveyId, totalSubmissions |-> 0,
              questions |-> NoQuestions, freeText |-> NoQuestions]
        ELSE [ok |-> TRUE, surveyId |-> surveyId,
              totalSubmissions |-> Len(rows),
              questions |-> [k \in DOMAIN acc.questions |->
                                WithAverage(acc.questions[k])],
              freeText |-> acc.freeText]

----------------------------------------------------------------------------
(* Sample inputs.                                                           *)

Chars(n, c) == [i \in 1..n |-> c]

RECURSIVE Repeat(_, _)
Repeat(c, n) ==
    IF n = 0 THEN ""
    ELSE IF n % 2 = 0 THEN LET h == Repeat(c, n \div 2) IN h \o h
    ELSE c \o Repeat(c, n - 1)

GreatYear == <<"G", "r", "e", "a", "t", " ", "y", "e", "a", "r">>

\* {safety_child_safe: 4, community_free: "Great year"}
ExamplePayload ==
    (<<"safety", "child", "safe">> :> JNum(40)) @@
    (<<"community", "free">> :> JStr(GreatYear))

\* {constructor: 3, safety_child_safe: 5}
InheritedKeyPayload ==
    (<<"constructor">> :> JNum(30)) @@
    (<<"safety", "child", "safe">> :> JNum(50))

\* 1000 keys "0_0_0" .. "9_9_9" with the value true
ManyKeys ==
    LET D == {Digits[i] : i \in 1..10}
    IN  [k \in {<<a, b, c>> : a \in D, b \in D, c \in D} |-> JBool(TRUE)]

\* exactly 1000 keys, one of them 200 characters long, and one value that
\* is 2000 characters long
LimitPayload ==
    LET long == <<Repeat("k", MaxKeyLen)>>
        f == [k \in (DOMAIN ManyKeys \ {<<"0", "0", "0">>}) \cup {long} |-> JBool(FALSE)]
    IN  [f EXCEPT ![long] = JStr(Chars(MaxValueLen, "x"))]

\* {safety_bus: null}: not a scalar
NullValueBody == Body("object", ExamplePayload @@ (<<"safety", "bus">> :> JNull))

\* The bodies of the requests of Spec
Bodies ==
    { Body("object", ExamplePayload),
      Body("object", InheritedKeyPayload),
      NullValueBody,
      Body("array", NoFields) }

\* The bodies of the requests of SpecLimits: at and beyond each limit of
\* validatePayload
LimitBodies ==
    { Body("object", LimitPayload),
      Body("object", NoFields),
      Body("undefined", NoFields),
      Body("null", NoFields),
      Body("array", NoFields),
      Body("string", NoFields),
      Body("object", ManyKeys @@ (<<"one", "more">> :> JNum(30))),
      Body("object", (<<Repeat("k", MaxKeyLen + 1)>> :> JNum(30))),
      NullValueBody,
      Body("object", ExamplePayload @@ (<<"safety", "bus">> :> JNested)),
      Body("object", (<<"community", "free">> :> JStr(Chars(MaxValueLen + 1, "x")))) }

Ip11 == <<"1", ".", "1">>
Ip112 == <<"1", ".", "1", "2">>
Ip21 == <<"2", ".", "1">>

\* req.ip || req.connection?.remoteAddress || '' (server.js 80)
Ips == {<<>>, Ip112, Ip21}

Undefined == "<undefined>"

\* req.query.token
Tokens == {"s3cret", "wrong", "", Undefined}

Slots == {1, 2}

\* The outcome of the queries of one handler: all succeed, the first one
\* fails (ensureSchema), or the second one does
DbOutcomes == {"ok", "fail1", "fail2"}

----------------------------------------------------------------------------
(* State.                                                                   *)

NoHash == [base |-> <<>>, rnd |-> 0]

NoRes == [status |-> 0, error |-> ""]

Res(status, error) == [status |-> status, error |-> error]

IdleReq ==
    [pc |-> "idle", ip |-> <<>>, whitelisted |-> FALSE, ip_hash |-> NoHash,
     payload |-> NoFields, res |-> NoRes, forwarded |-> FALSE,
     fetch |-> "none", seen |-> 0]

NoSummary ==
    [ok |-> FALSE, surveyId |-> "", totalSubmissions |-> 0,
     questions |-> NoQuestions, freeText |-> NoQuestions]

Response(route, status, error, hasSummary, summary) ==
    [route |-> route, status |-> status, error |-> error,
     hasSummary |-> hasSummary, summary |-> summary]

NoResponse == Response("", 0, "", FALSE, NoSummary)

Row(surveyId, hash, payload) ==
    [survey_id |-> surveyId, ip_hash |-> hash, payload |-> payload]

Range(seq) == {seq[i] : i \in 1..Len(seq)}

\* A row left in the table by a deployment with another SURVEY_ID
OtherRow == Row(OtherSurveyId, [base |-> Ip21, rnd |-> 0], ExamplePayload)

\* Two deployments: the defaults (no admin token, no webhook, server.js 18
\* and 20), and one with ADMIN_TOKEN and APPS_SCRIPT_URL set; both whitelist
\* the prefix "1.1".
Envs ==
    { [SURVEY_ID |-> "royhart_parent_family_climate_2025", ADMIN_TOKEN |-> "",
       APPS_SCRIPT_URL |-> "", IP_WHITELIST_PREFIXES |-> {Ip11}],
      [SURVEY_ID |-> "royhart_parent_family_climate_2025",
       ADMIN_TOKEN |-> "s3cret",
       APPS_SCRIPT_URL |-> "https://script.example/exec",
       IP_WHITELIST_PREFIXES |-> {Ip11}] }

\* The table is absent, or holds rows stored before the process started:
\* one of another survey and one of this survey, from address 2.1
Init ==
    /\ env \in Envs
    /\ \/ tableExists = FALSE /\ store = <<>> /\ accepted = <<>>
       \/ /\ tableExists = TRUE
          /\ store = <<OtherRow, Row(SURVEY_ID, makeIpHash(Ip21, FALSE, 0),
                                     ExamplePayload)>>
          /\ accepted = <<Ip21>>
    /\ req = [r \in Slots |-> IdleReq]
    /\ lastRes = NoResponse
    /\ nonce = 0
    /\ everAccepted = Range(accepted)
    /\ nreq = 0
    /\ dashboard = {}

----------------------------------------------------------------------------
(* POST /submit (server.js 144-203).                                        *)

\* Mutant: the table has no UNIQUE constraint
UniqueViolationNever(table, surveyId, hash) == FALSE

\* UNIQUE (survey_id, ip_hash) (server.js 51): the insert raises 23505
UniqueViolation(table, surveyId, hash) ==
    \E i \in 1..Len(table) :
        table[i].survey_id = surveyId /\ table[i].ip_hash = hash

\* Mutant: the insert overwrites the row stored last
InsertOverwrites(table, row) ==
    IF table = <<>> THEN <<row>> ELSE [table EXCEPT ![Len(table)] = row]

\* INSERT INTO submissions (survey_id, ip_hash, payload) VALUES ($1, $2, $3)
Insert(table, row) == Append(table, row)

\* Mutant: the message of the error is sent to the client
CatchResponseWithDetail(code) ==
    IF code = "23505" THEN Res(403, "duplicate_ip") ELSE Res(500, code)

\* The catch of lines 195-202, for the code of the error thrown
CatchResponse(code) ==
    IF code = "23505" THEN Res(403, "duplicate_ip")
    ELSE Res(500, "server_error")

\* The code of the error of a storage call that failed for another reason
\* than the uniqueness constraint
StorageError == "ECONNREFUSED"

\* Lines 145-155: the synchronous part, up to the first await
SubmitReceive(r, ip, body) ==
    /\ req[r].pc \in {"idle", "done"}
    /\ nreq < MaxRequests
    /\ nreq' = nreq + 1
    /\ LET whitelisted == isIpWhitelisted(ip)
           ip_hash == makeIpHash(ip, whitelisted, nonce + 1)
           this == [IdleReq EXCEPT !.ip = ip, !.whitelisted = whitelisted,
                                   !.ip_hash = ip_hash, !.seen = Len(accepted)]
       IN  /\ nonce' = IF whitelisted THEN nonce + 1 ELSE nonce
           /\ IF validatePayload(body)
              THEN req' = [req EXCEPT ![r] =
                        [this EXCEPT !.pc = "done", !.ip_hash = NoHash,
                                     !.res = Res(400, "invalid_payload")]]
              ELSE req' = [req EXCEPT ![r] =
                        [this EXCEPT !.pc = "ensureSchema",
                                     !.payload = body.f]]
    /\ lastRes' = NoResponse
    /\ UNCHANGED <<env, dashboard, tableExists, store, accepted, everAccepted>>

\* Line 158: await ensureSchema()
SubmitEnsureSchema(r, dbOk) ==
    /\ req[r].pc = "ensureSchema"
    /\ IF dbOk
       THEN /\ tableExists' = TRUE
            /\ req' = [req EXCEPT ![r].pc = "insert"]
       ELSE /\ tableExists' = tableExists
            /\ req' = [req EXCEPT ![r].pc = "done",
                                  ![r].payload = NoFields,
                                  ![r].ip_hash = NoHash,
                                  ![r].res = CatchResponse(StorageError)]
    /\ lastRes' = NoResponse
    /\ UNCHANGED <<env, dashboard, store, nonce, accepted, everAccepted, nreq>>

\* Lines 160-202: the INSERT, the forwarding and the response
SubmitInsert(r, dbOk) ==
    /\ req[r].pc = "insert"
    /\ IF ~dbOk
       THEN /\ req' = [req EXCEPT ![r].pc = "done",
                                  ![r].payload = NoFields,
                                  ![r].ip_hash = NoHash,
                                  ![r].res = CatchResponse(StorageError)]
            /\ UNCHANGED <<store, accepted, everAccepted>>
       ELSE IF UniqueViolation(store, SURVEY_ID, req[r].ip_hash)
       THEN /\ req' = [req EXCEPT ![r].pc = "done",
                                  ![r].payload = NoFields,
                                  ![r].ip_hash = NoHash,
                                  ![r].res = CatchResponse("23505")]
            /\ UNCHANGED <<store, accepted, everAccepted>>
       ELSE /\ store' = Insert(store,
                           Row(SURVEY_ID, req[r].ip_hash, req[r].payload))
            /\ accepted' = Append(accepted, req[r].ip)
            /\ everAccepted' = everAccepted \cup {req[r].ip}
            /\ req' = [req EXCEPT ![r].pc = "done",
                                  ![r].payload = NoFields,
                                  ![r].ip_hash = NoHash,
                                  ![r].forwarded = (APPS_SCRIPT_URL # ""),
                                  ![r].fetch = IF APPS_SCRIPT_URL # ""
                                               THEN "pending" ELSE "none",
                                  ![r].res = Res(200, "")]
    /\ lastRes' = NoResponse
    /\ UNCHANGED <<env, dashboard, tableExists, nonce, nreq>>

----------------------------------------------------------------------------
(* The forwarding started by an accepted submission (server.js 166-188).    *)

\* How the promise returned by fetch settles: resolved with r.ok, resolved
\* with a non-OK status, rejected by the network, or rejected before anything
\* was sent (a URL that cannot be parsed)
FetchOutcomes == {"ok", "http_error", "network_error", "not_started"}

\* Mutant: a failed forwarding reaches the response of the request
ForwardResponsePropagated(res, outcome) ==
    IF outcome = "ok" THEN res ELSE Res(500, "server_error")

\* The response of the request once its fetch settled: .then logs, .catch
\* logs, and neither touches res
ForwardResponse(res, outcome) == res

\* The .then / .catch callbacks of the fetch of the request of slot r
ForwardSettle(r, outcome) ==
    /\ req[r].fetch = "pending"
    /\ req' = [req EXCEPT ![r].fetch = outcome,
                          ![r].res = ForwardResponse(@, outcome)]
    /\ lastRes' = NoResponse
    /\ UNCHANGED <<env, dashboard, tableExists, store, nonce, accepted, everAccepted,
                   nreq>>

----------------------------------------------------------------------------
(* GET /admin/reset (server.js 207-228).                                    *)

\* Mutant: without the check of line 209, an empty token equals an unset
\* ADMIN_TOKEN
AdminGateNoUnsetCheck(token) ==
    IF token # ADMIN_TOKEN THEN "forbidden" ELSE "ok"

\* Lines 209-216 (and 302-308): the check of ADMIN_TOKEN and of req.query.token
AdminGate(token) ==
    IF ADMIN_TOKEN = "" THEN "admin_token_not_set"
    ELSE IF token # ADMIN_TOKEN THEN "forbidden"
    ELSE "ok"

GateStatus(gate) == IF gate = "forbidden" THEN 403 ELSE 500

\* Mutant: DELETE FROM submissions WHERE survey_id = SURVEY_ID
TruncateOwnSurvey(table) ==
    SelectSeq(table, LAMBDA row : row.survey_id # SURVEY_ID)

\* TRUNCATE TABLE submissions (server.js 219)
Truncate(table) == <<>>

AdminReset(token, db) ==
    /\ IF AdminGate(token) # "ok"
       THEN /\ lastRes' = Response("/admin/reset", GateStatus(AdminGate(token)),
                                   AdminGate(token), FALSE, NoSummary)
            /\ UNCHANGED <<tableExists, store, accepted>>
       ELSE IF db # "ok"
       THEN /\ lastRes' = Response("/admin/reset", 500, "server_error",
                                   FALSE, NoSummary)
            /\ tableExists' = (tableExists \/ db = "fail2")
            /\ UNCHANGED <<store, accepted>>
       ELSE /\ lastRes' = Response("/admin/reset", 200, "", FALSE,
                                   NoSummary)
            /\ tableExists' = TRUE
            /\ store' = Truncate(store)
            /\ accepted' = <<>>
    /\ UNCHANGED <<env, dashboard, req, nonce, everAccepted, nreq>>

----------------------------------------------------------------------------
(* GET /admin/summary and GET /summary (server.js 300-331).                 *)

\* Mutant: the handler keeps the count of the summary it sent last and adds
\* it to the next one
SummaryResponseKeepsState(route, db) ==
    LET summary == buildSummary(store, SURVEY_ID)
    IN  IF db = "ok" /\ summary.ok
        THEN Response(route, 200, "", TRUE,
                      [summary EXCEPT !.totalSubmissions =
                          @ + lastRes.summary.totalSubmissions])
        ELSE Response(route, 500, "server_error", FALSE, NoSummary)

\* const summary = await buildSummary(); return res.json({ok: true, summary})
\* with the catch that answers 500
SummaryResponse(route, db) ==
    LET summary == buildSummary(store, SURVEY_ID)
    IN  IF db = "ok" /\ summary.ok
        THEN Response(route, 200, "", TRUE, summary)
        ELSE Response(route, 500, "server_error", FALSE, NoSummary)

AdminSummary(token, db) ==
    /\ IF AdminGate(token) # "ok"
       THEN /\ lastRes' = Response("/admin/summary",
                                   GateStatus(AdminGate(token)),
                                   AdminGate(token), FALSE, NoSummary)
            /\ UNCHANGED tableExists
       ELSE /\ lastRes' = SummaryResponse("/admin/summary", db)
            /\ tableExists' = (tableExists \/ db # "fail1")
    /\ UNCHANGED <<env, dashboard, store, req, nonce, accepted, everAccepted, nreq>>

PublicSummary(db) ==
    /\ lastRes' = SummaryResponse("/summary", db)
    /\ tableExists' = (tableExists \/ db # "fail1")
    /\ UNCHANGED <<env, dashboard, store, req, nonce, accepted, everAccepted, nreq>>

----------------------------------------------------------------------------
(* GET /health (server.js 133-141) and the 404 handler (334-336).           *)

Health(dbOk) ==
    /\ lastRes' = IF dbOk
                  THEN Response("/health", 200, "", FALSE, NoSummary)
                  ELSE Response("/health", 500, "db_unreachable",
                                FALSE, NoSummary)
    /\ UNCHANGED <<env, dashboard, tableExists, store, req, nonce, accepted, everAccepted,
                   nreq>>

NotFound ==
    /\ lastRes' = Response("*", 404, "not_found", FALSE, NoSummary)
    /\ UNCHANGED <<env, dashboard, tableExists, store, req, nonce, accepted, everAccepted,
                   nreq>>

----------------------------------------------------------------------------

\* GET /myip (server.js 71-74; the second registration, 124-130, is never
\* reached)
MyIp(ip) ==
    /\ lastRes' = Response("/myip", 200, "", FALSE, NoSummary)
    /\ UNCHANGED <<env, dashboard, tableExists, store, req, nonce, accepted, everAccepted,
                   nreq>>

----------------------------------------------------------------------------
(* The admin page (public/admin.js): the labels and counts of a question.   *)

\* Single-segment property names every object literal inherits: a lookup
\* map[name] || fallback finds the inherited member, not the fallback
InheritedNames == {k[1] : k \in {x \in ObjectPrototypeKeys : Len(x) = 1}}

InheritedMember == "[inherited member]"

\* CATEGORY_LABELS (admin.js 34-41) and categoryMap (admin.js 770-777)
CATEGORY_LABELS ==
    ("community" :> "School Community") @@
    ("comm" :> "Communicating Effectively") @@
    ("success" :> "Supporting Student Success") @@
    ("advocacy" :> "Speaking Up for Every Child") @@
    ("decision" :> "Decision Making") @@
    ("safety" :> "School Safety")

\* BUILDING_LABELS (admin.js 43-48)
BUILDING_LABELS ==
    ("elem" :> "Elementary School") @@ ("ms" :> "Middle School") @@
    ("hs" :> "High School") @@ ("na" :> AllNA)

\* map[k] || fallback
LabelOr(map, k, fallback) ==
    IF k \in DOMAIN map THEN map[k]
    ELSE IF k \in InheritedNames THEN InheritedMember
    ELSE fallback

BuildingCodes == {"elem", "ms", "hs"}

\* parseQuestionMeta of the first script (admin.js 50-81); parts = key
parseQuestionMeta1(parts) ==
    IF Len(parts) < 2
    THEN [categoryLabel |-> parts[1], buildingLabel |-> BUILDING_LABELS["na"]]
    ELSE LET categoryKey == parts[1]
             buildingCode == parts[Len(parts)]
             buildingKey == IF buildingCode \in BuildingCodes
                            THEN buildingCode ELSE "na"
         IN  [categoryLabel |-> LabelOr(CATEGORY_LABELS, categoryKey,
                                        categoryKey),
              buildingLabel |-> BUILDING_LABELS[buildingKey]]

\* parseQuestionMeta of the third script (admin.js 752-782)
parseQuestionMeta3(parts) ==
    LET suffixed == Len(parts) >= 2 /\ parts[Len(parts)] \in BuildingCodes
        buildingLabel ==
            IF ~suffixed THEN AllNA
            ELSE CASE parts[Len(parts)] = "elem" -> "Elementary"
                   [] parts[Len(parts)] = "ms" -> "Middle School"
                   [] OTHER -> "High School"
        base == IF suffixed THEN SubSeq(parts, 1, Len(parts) - 1) ELSE parts
    IN  [categoryLabel |-> LabelOr(CATEGORY_LABELS, base[1], "Other"),
         buildingLabel |-> buildingLabel]

Scripts == {1, 3}

\* counts['1'] || 0, ..., counts['5'] || 0 (admin.js 212-218 and 656-660)
countsStr(counts) ==
    [i \in 1..5 |-> IF 10 * i \in DOMAIN counts THEN counts[10 * i] ELSE 0]

\* The row of question q as the script shows it
QuestionRow(script, q) ==
    LET meta == IF script = 1 THEN parseQuestionMeta1(q.key)
                ELSE parseQuestionMeta3(q.key)
    IN  [script |-> script, key |-> q.key,
         categoryLabel |-> meta.categoryLabel,
         buildingLabel |-> meta.buildingLabel,
         responses |-> q.responses,
         countsStr |-> countsStr(q.counts)]

\* renderSummary(json.summary) after /admin/summary answered {ok: true}
\* (admin.js 93-118 and 128-262, 534-640)
RenderSummary(script) ==
    /\ lastRes.route = "/admin/summary"
    /\ lastRes.hasSummary
    /\ dashboard' = {QuestionRow(script, lastRes.summary.questions[k]) :
                        k \in DOMAIN lastRes.summary.questions}
    /\ UNCHANGED <<env, tableExists, store, req, lastRes, nonce, accepted,
                   everAccepted, nreq>>

----------------------------------------------------------------------------
(* Specifications.                                                          *)

\* Spec: concurrent ingestion (two requests in flight) and the reset
Next ==
    \/ \E r \in Slots, ip \in Ips, body \in Bodies : SubmitReceive(r, ip, body)
    \/ \E r \in Slots, dbOk \in BOOLEAN : SubmitEnsureSchema(r, dbOk)
    \/ \E r \in Slots, dbOk \in BOOLEAN : SubmitInsert(r, dbOk)
    \/ \E token \in Tokens, db \in DbOutcomes : AdminReset(token, db)

Spec == Init /\ [][Next]_vars

\* SpecRoutes: every route, one /submit request in flight at a time
NextRoutes ==
    \/ \E ip \in Ips, body \in Bodies : SubmitReceive(1, ip, body)
    \/ \E dbOk \in BOOLEAN : SubmitEnsureSchema(1, dbOk)
    \/ \E dbOk \in BOOLEAN : SubmitInsert(1, dbOk)
    \/ \E token \in Tokens, db \in DbOutcomes : AdminReset(token, db)
    \/ \E token \in Tokens, db \in DbOutcomes : AdminSummary(token, db)
    \/ \E db \in DbOutcomes : PublicSummary(db)
    \/ \E dbOk \in BOOLEAN : Health(dbOk)
    \/ \E ip \in Ips : MyIp(ip)
    \/ NotFound

SpecRoutes == Init /\ [][NextRoutes]_vars

\* A whitelisted and a non-whitelisted address
LimitIps == {Ip112, Ip21}

\* SpecLimits: POST /submit with bodies at and beyond the limits of
\* validatePayload
NextLimits ==
    \/ \E ip \in LimitIps, body \in LimitBodies : SubmitReceive(1, ip, body)
    \/ \E dbOk \in BOOLEAN : SubmitEnsureSchema(1, dbOk)
    \/ \E dbOk \in BOOLEAN : SubmitInsert(1, dbOk)

SpecLimits == Init /\ [][NextLimits]_vars

\* SpecForward: POST /submit and the settling of the forwarding it started
NextForward ==
    \/ \E ip \in Ips, body \in Bodies : SubmitReceive(1, ip, body)
    \/ \E dbOk \in BOOLEAN : SubmitEnsureSchema(1, dbOk)
    \/ \E dbOk \in BOOLEAN : SubmitInsert(1, dbOk)
    \/ \E outcome \in FetchOutcomes : ForwardSettle(1, outcome)

SpecForward == Init /\ [][NextForward]_vars

\* SpecAnswered: SpecForward where every storage call the handler awaits
\* settles (it resolves or rejects)
SpecAnswered ==
    /\ Init
    /\ [][NextForward]_vars
    /\ WF_vars(\E dbOk \in BOOLEAN : SubmitEnsureSchema(1, dbOk))
    /\ WF_vars(\E dbOk \in BOOLEAN : SubmitInsert(1, dbOk))

\* SpecTotals: submissions (a body without any field among them), resets
\* and summaries
TotalsBodies ==
    { Body("object", ExamplePayload),
      Body("object", NoFields),
      Body("object", (<<"xyz", "foo">> :> JNum(25)) @@
                     (<<"safety", "child", "safe">> :> JStr(<<"5">>))),
      NullValueBody }

NextTotals ==
    \/ \E ip \in LimitIps, body \in TotalsBodies : SubmitReceive(1, ip, body)
    \/ \E dbOk \in BOOLEAN : SubmitEnsureSchema(1, dbOk)
    \/ \E dbOk \in BOOLEAN : SubmitInsert(1, dbOk)
    \/ \E token \in Tokens, db \in DbOutcomes : AdminReset(token, db)
    \/ \E db \in DbOutcomes : PublicSummary(db)

SpecTotals == Init /\ [][NextTotals]_vars

\* SpecSummary: the summary routes over every table of at most MaxRows rows
\* drawn from SummaryPayloads (and a row of another survey)
SummaryPayloads ==
    { ExamplePayload,
      InheritedKeyPayload,
      \* {safety_child_safe: " 5 ", xyz_foo: 2.5, decision_voice_hs: "abc"}
      (<<"safety", "child", "safe">> :> JStr(<<" ", "5", " ">>)) @@
      (<<"xyz", "foo">> :> JNum(25)) @@
      (<<"decision", "voice", "hs">> :> JStr(<<"a", "b", "c">>)),
      \* {safety_child_safe: true, xyz_foo: "", decision_voice_hs: 0}
      (<<"safety", "child", "safe">> :> JBool(TRUE)) @@
      (<<"xyz", "foo">> :> JStr(<<>>)) @@
      (<<"decision", "voice", "hs">> :> JNum(0)),
      \* {safety_child_safe: 6, xyz_foo: "1", community_free: "  "}
      (<<"safety", "child", "safe">> :> JNum(60)) @@
      (<<"xyz", "foo">> :> JStr(<<"1">>)) @@
      (<<"community", "free">> :> JStr(<<" ", " ">>)),
      \* {constructor: "n/a", decision_voice_hs: "2.5", community_free: 4}
      (<<"constructor">> :> JStr(<<"n", "/", "a">>)) @@
      (<<"decision", "voice", "hs">> :> JStr(<<"2", ".", "5">>)) @@
      (<<"community", "free">> :> JNum(40)),
      \* {community_free: " ok ", safety_free: "", decision_voice_hs: 3}
      (<<"community", "free">> :> JStr(<<" ", "o", "k", " ">>)) @@
      (<<"safety", "free">> :> JStr(<<>>)) @@
      (<<"decision", "voice", "hs">> :> JNum(30)),
      \* {}
      NoFields }

\* The i-th row of a table: a kiosk submission with payload p, or the row of
\* another survey
SummaryRow(i, p) ==
    IF p = NoFields /\ i % 2 = 0
    THEN Row(OtherSurveyId, [base |-> Ip112, rnd |-> i], ExamplePayload)
    ELSE Row(SURVEY_ID, [base |-> Ip112, rnd |-> i], p)

InitSummary ==
    /\ env \in Envs
    /\ tableExists = TRUE
    /\ \E n \in 0..MaxRows : \E ps \in [1..n -> SummaryPayloads] :
          /\ store = [i \in 1..n |-> SummaryRow(i, ps[i])]
          /\ accepted = [i \in 1..Len(SelectRows(store, SURVEY_ID)) |-> Ip112]
          /\ nonce = n
    /\ req = [r \in Slots |-> IdleReq]
    /\ lastRes = NoResponse
    /\ everAccepted = Range(accepted)
    /\ nreq = 0
    /\ dashboard = {}

NextSummary ==
    \/ \E script \in Scripts : RenderSummary(script)
    \/ \E token \in Tokens, db \in DbOutcomes : AdminSummary(token, db)
    \/ \E db \in DbOutcomes : PublicSummary(db)

SpecSummary == InitSummary /\ [][NextSummary]_vars

----------------------------------------------------------------------------
(* Vocabulary of the properties.                                            *)

\* The address starts with one of the configured whitelist prefixes
Whitelisted(ip) ==
    \E prefix \in IP_WHITELIST_PREFIXES :
        /\ Len(ip) >= Len(prefix)
        /\ \A i \in 1..Len(prefix) : ip[i] = prefix[i]

Duplicate == Res(403, "duplicate_ip")

Ok == Res(200, "")

\* No two rows of the table agree on (survey_id, ip_hash)
UniqueKeys(table) ==
    \A i, j \in 1..Len(table) :
        (/\ table[i].survey_id = table[j].survey_id
         /\ table[i].ip_hash = table[j].ip_hash) => i = j

----------------------------------------------------------------------------
(* Ingestion and deduplication (Spec).                                      *)

\* C1: with no reset in between, once a non-whitelisted address has an
\* accepted submission stored for SURVEY_ID, the insert of a later valid
\* submission from that address leaves the table unchanged and, the storage
\* answering, is answered 403 'duplicate_ip' (not 500); the table never
\* holds two rows with the same (survey_id, ip_hash).
C1_DuplicateRejected ==
    [][ /\ \A r \in Slots, dbOk \in BOOLEAN :
              (/\ SubmitInsert(r, dbOk)
               /\ ~Whitelisted(req[r].ip)
               /\ req[r].ip \in Range(accepted))
              => /\ store' = store
                 /\ req'[r].pc = "done"
                 /\ dbOk => req'[r].res = Duplicate
        /\ UniqueKeys(store') ]_vars

\* A second submission, received after the first one of its address was
\* accepted, has been answered 'duplicate_ip'
C1_Witness ==
    \E r \in Slots :
        /\ req[r].pc = "done"
        /\ req[r].res = Duplicate
        /\ req[r].seen >= 1
        /\ ~Whitelisted(req[r].ip)
        /\ req[r].ip \in Range(accepted)
        /\ Len(SelectRows(store, SURVEY_ID)) = 1

\* C2: under any interleaving of the requests of one non-whitelisted
\* address at most one is accepted between two resets; 'duplicate_ip' is
\* only ever answered by the INSERT step (never by a read made before it),
\* and only to an address that has a submission accepted; every INSERT the
\* storage answers is either accepted or answered 'duplicate_ip'.
C2_ConcurrentSubmitsOneAccepted ==
    [][ /\ \A i, j \in 1..Len(accepted') :
              (accepted'[i] = accepted'[j] /\ i # j) => Whitelisted(accepted'[i])
        /\ \A r \in Slots :
              (req'[r].res = Duplicate /\ req'[r] # req[r])
              => /\ req[r].pc = "insert"
                 /\ req[r].ip \in Range(accepted)
                 /\ store' = store
        /\ \A r \in Slots :
              (req[r].pc = "insert" /\ SubmitInsert(r, TRUE))
              => \/ req'[r].res = Duplicate
                 \/ req'[r].res = Ok /\ Len(store') = Len(store) + 1 ]_vars

\* Two requests of one non-whitelisted address, both received before either
\* was stored: one accepted, the other answered 'duplicate_ip'
C2_Witness ==
    \E r1, r2 \in Slots :
        /\ r1 # r2
        /\ req[r1].ip = req[r2].ip
        /\ ~Whitelisted(req[r1].ip)
        /\ req[r1].pc = "done" /\ req[r1].res = Ok /\ req[r1].seen = 0
        /\ req[r2].pc = "done" /\ req[r2].res = Duplicate /\ req[r2].seen = 0

\* C3: a valid submission from a whitelisted address is never answered
\* 'duplicate_ip': its INSERT, the storage answering, is accepted and adds
\* exactly one row, whatever the table holds.
C3_WhitelistedNeverDuplicate ==
    [][ \A r \in Slots :
            /\ (SubmitInsert(r, TRUE) /\ Whitelisted(req[r].ip))
               => /\ req'[r].res = Ok
                  /\ Len(store') = Len(store) + 1
                  /\ Len(accepted') = Len(accepted) + 1
            /\ Whitelisted(req'[r].ip) => req'[r].res # Duplicate ]_vars

\* One whitelisted address has two submissions accepted and stored
C3_Witness ==
    \E i, j \in 1..Len(store) :
        /\ i # j
        /\ store[i].survey_id = SURVEY_ID /\ store[j].survey_id = SURVEY_ID
        /\ store[i].ip_hash.base = store[j].ip_hash.base
        /\ Whitelisted(store[i].ip_hash.base)
        /\ Len(accepted) >= 2 /\ accepted[1] = accepted[2]

----------------------------------------------------------------------------
(* Reset and summary routes (SpecRoutes).                                   *)

ResetOk == Response("/admin/reset", 200, "", FALSE, NoSummary)

EmptySummary(summary) ==
    /\ summary.totalSubmissions = 0
    /\ DOMAIN summary.questions = {}
    /\ DOMAIN summary.freeText = {}

\* C7: a successful reset leaves the table with no row of any survey id, and
\* a summary request the storage answers, made while no submission has been
\* accepted since, is answered with totalSubmissions = 0 and empty questions
\* and freeText.
C7_ResetThenSummaryEmpty ==
    [][ /\ lastRes' = ResetOk => store' = <<>>
        /\ \A db \in DbOutcomes :
              (/\ accepted = <<>>
               /\ \/ PublicSummary(db)
                  \/ AdminSummary(ADMIN_TOKEN, db) /\ ADMIN_TOKEN # "")
              => /\ db = "ok" => lastRes'.status = 200 /\ lastRes'.hasSummary
                 /\ lastRes'.hasSummary => EmptySummary(lastRes'.summary) ]_vars

\* Rows of this survey had been accepted, a reset removed them, and the
\* summary was then answered empty
C7_Witness ==
    /\ everAccepted # {}
    /\ accepted = <<>>
    /\ store = <<>>
    /\ lastRes.hasSummary
    /\ EmptySummary(lastRes.summary)

\* C8 as stated: a summary is sent only in answer to a request that carries
\* the configured, non-empty admin token.
C8_SummaryTokenGated ==
    [][ lastRes'.hasSummary =>
            /\ ADMIN_TOKEN # ""
            /\ \E db \in DbOutcomes : AdminSummary(ADMIN_TOKEN, db) ]_vars

\* C9: rows leave the table only in a reset request whose token is the
\* configured non-empty ADMIN_TOKEN; any other reset request leaves the table
\* as it is and is answered 500 'admin_token_not_set' when no token is
\* configured (an empty token included), 403 'forbidden' otherwise.
C9_ResetTokenGated ==
    [][ /\ \A token \in Tokens, db \in DbOutcomes :
              (AdminReset(token, db) /\ (ADMIN_TOKEN = "" \/ token # ADMIN_TOKEN))
              => /\ store' = store
                 /\ lastRes'.route = "/admin/reset"
                 /\ lastRes'.status = IF ADMIN_TOKEN = "" THEN 500 ELSE 403
                 /\ lastRes'.error = IF ADMIN_TOKEN = ""
                                     THEN "admin_token_not_set" ELSE "forbidden"
        /\ (\E i \in 1..Len(store) : i > Len(store') \/ store'[i] # store[i])
              => /\ ADMIN_TOKEN # ""
                 /\ \E db \in DbOutcomes : AdminReset(ADMIN_TOKEN, db) ]_vars

\* A reset request without the token was refused and the rows are still there
C9_Witness ==
    /\ lastRes.route = "/admin/reset"
    /\ lastRes.status \in {403, 500}
    /\ lastRes.error \in {"forbidden", "admin_token_not_set"}
    /\ Len(store) >= 2

----------------------------------------------------------------------------
(* Validation (SpecLimits).                                                 *)

Scalar(v) == v.t \in {"string", "number", "boolean"}

\* The body is not a flat object within the limits: 1000 keys, 200
\* characters a key, scalar values of at most 2000 characters
Malformed(body) ==
    \/ body.t \in {"undefined", "null", "array", "string", "number", "boolean"}
    \/ Cardinality(DOMAIN body.f) >= MaxKeys + 1
    \/ \E k \in DOMAIN body.f :
          \/ KeyLength(k) >= MaxKeyLen + 1
          \/ ~Scalar(body.f[k])
          \/ Scalar(body.f[k]) /\ Len(ToJsString(body.f[k])) >= MaxValueLen + 1

\* C10: a malformed body is answered 400 'invalid_payload' by the first step
\* of the handler, with the table unchanged and nothing forwarded, whatever
\* the table holds; a body within the limits is never answered 400.
C10_MalformedRejectedBeforeWrite ==
    [][ /\ \A ip \in Ips, body \in LimitBodies :
              SubmitReceive(1, ip, body)
              => IF Malformed(body)
                 THEN /\ req'[1].pc = "done"
                      /\ req'[1].res = Res(400, "invalid_payload")
                      /\ ~req'[1].forwarded
                      /\ store' = store
                 ELSE req'[1].pc = "ensureSchema"
        /\ req'[1].res.status = 400 =>
              /\ store' = store
              /\ ~req'[1].forwarded
              /\ req[1].pc \in {"idle", "done"} ]_vars

\* A malformed body from an address whose submission at the limits (1000
\* keys, a 200-character key, a 2000-character value) is stored was answered
\* 400
C10_Witness ==
    /\ req[1].pc = "done"
    /\ req[1].res = Res(400, "invalid_payload")
    /\ \E i \in 1..Len(store) :
          /\ store[i].ip_hash.base = req[1].ip
          /\ Cardinality(DOMAIN store[i].payload) = MaxKeys
          /\ \E k \in DOMAIN store[i].payload :
                /\ KeyLength(k) = MaxKeyLen
                /\ Len(ToJsString(store[i].payload[k])) = MaxValueLen

----------------------------------------------------------------------------
(* Aggregation (SpecSummary).                                               *)

\* The rows a summary is built from
OwnRows == SelectRows(store, SURVEY_ID)

\* The non-free keys of the stored submissions
ScaleKeys ==
    {k \in UNION {DOMAIN OwnRows[i].payload : i \in 1..Len(OwnRows)} :
        ~(Len(k) >= 2 /\ k[Len(k)] = "free")}

\* The value as a number, for a number or a numeric string
ScaleNumber(v) ==
    CASE v.t = "number" -> Finite(v.n)
      [] v.t = "string" /\ Trim(v.s) # <<>> -> StringToNumber(v.s)
      [] OTHER -> NaN

\* Row i holds a numeric value between 1 and 5 for k
ValidAnswer(i, k) ==
    /\ k \in DOMAIN OwnRows[i].payload
    /\ ~ScaleNumber(OwnRows[i].payload[k]).nan
    /\ ScaleNumber(OwnRows[i].payload[k]).n >= 10
    /\ ScaleNumber(OwnRows[i].payload[k]).n <= 50

AnswerOf(i, k) == ScaleNumber(OwnRows[i].payload[k]).n

ValidRows(k) == {i \in 1..Len(OwnRows) : ValidAnswer(i, k)}

RECURSIVE SumOfAnswers(_, _)
SumOfAnswers(k, rows) ==
    IF rows = {} THEN 0
    ELSE LET i == CHOOSE x \in rows : TRUE
         IN  AnswerOf(i, k) + SumOfAnswers(k, rows \ {i})

\* C5 as stated: in the summary of the stored submissions, each numeric
\* value between 1 and 5 under a non-free key k adds one to
\* questions[k].responses, one to questions[k].counts[v] and v to
\* questions[k].sum; any other value adds nothing, and no value makes the
\* pass fail.
C5_ScaleValuesCounted ==
    [][ PublicSummary("ok") =>
          /\ lastRes'.status = 200
          /\ lastRes'.hasSummary
          /\ \A k \in ScaleKeys :
                IF ValidRows(k) = {}
                THEN k \notin DOMAIN lastRes'.summary.questions
                ELSE /\ k \in DOMAIN lastRes'.summary.questions
                     /\ LET q == lastRes'.summary.questions[k]
                        IN  /\ q.responses = Cardinality(ValidRows(k))
                            /\ q.sum = SumOfAnswers(k, ValidRows(k))
                            /\ \A i \in ValidRows(k) :
                                  /\ AnswerOf(i, k) \in DOMAIN q.counts
                                  /\ q.counts[AnswerOf(i, k)] =
                                       Cardinality({j \in ValidRows(k) :
                                           AnswerOf(j, k) = AnswerOf(i, k)}) ]_vars

\* C5 for the keys that {} does not inherit (what the code does achieve)
C5_ScaleValuesCountedOwnKeys ==
    [][ (PublicSummary("ok") /\ ScaleKeys \cap ObjectPrototypeKeys = {}) =>
          /\ lastRes'.status = 200
          /\ lastRes'.hasSummary
          /\ \A k \in ScaleKeys :
                IF ValidRows(k) = {}
                THEN k \notin DOMAIN lastRes'.summary.questions
                ELSE /\ k \in DOMAIN lastRes'.summary.questions
                     /\ LET q == lastRes'.summary.questions[k]
                        IN  /\ q.responses = Cardinality(ValidRows(k))
                            /\ q.sum = SumOfAnswers(k, ValidRows(k))
                            /\ \A c \in DOMAIN q.counts :
                                  q.counts[c] =
                                     Cardinality({j \in ValidRows(k) :
                                                     AnswerOf(j, k) = c}) ]_vars

\* C6: in every summary sent, every entry of questions has responses >= 1
\* and an average that is the number sum / responses, above zero; a key with
\* no valid answer has no entry (or a null average).
C6_AverageNeverNaNOrZero ==
    lastRes.hasSummary =>
       /\ \A k \in DOMAIN lastRes.summary.questions :
             LET q == lastRes.summary.questions[k]
             IN  /\ q.responses >= 1
                 /\ q.average.kind = "number"
                 /\ q.average.num = q.sum
                 /\ q.average.den = q.responses
                 /\ q.average.num > 0
       /\ \A k \in ScaleKeys :
             ValidRows(k) = {} =>
                \/ k \notin DOMAIN lastRes.summary.questions
                \/ lastRes.summary.questions[k].average.kind = "null"

\* A summary with an averaged question (4 and 5 give 9 / 2) and a key whose
\* only values are not valid answers
C6_Witness ==
    /\ lastRes.hasSummary
    /\ \E k \in DOMAIN lastRes.summary.questions :
          /\ lastRes.summary.questions[k].average.num = 90
          /\ lastRes.summary.questions[k].average.den = 2
    /\ \E k \in ScaleKeys :
          /\ ValidRows(k) = {}
          /\ k \notin DOMAIN lastRes.summary.questions

----------------------------------------------------------------------------
(* Forwarding.                                                              *)

\* Slot r added a row in this step
Stored(r) ==
    /\ req[r].pc = "insert"
    /\ req'[r].pc = "done"
    /\ store' = Append(store, Row(SURVEY_ID, req[r].ip_hash, req[r].payload))

\* C11: a failure of the forwarding never affects the ingestion response.
\* Whenever the insert of a request succeeded its response is {ok: true} and
\* stays so however the fetch settles; a fetch is started only in the step in
\* which the row of an accepted submission was stored, and a request that
\* was rejected (400, 403, 500) never has one.
C11_ForwardingNeverAffectsResponse ==
    [][\A r \in Slots :
          /\ Stored(r) => req'[r].res = Res(200, "")
          /\ (req[r].pc = "done" /\ nreq' = nreq)
                => req'[r].res = req[r].res
          /\ (req[r].fetch = "none" /\ req'[r].fetch # "none")
                => /\ Stored(r)
                   /\ req'[r].fetch = "pending"
                   /\ APPS_SCRIPT_URL # ""
          /\ (req'[r].pc = "done" /\ req'[r].res.status # 200)
                => req'[r].fetch = "none"]_vars

C11_Witness ==
    /\ req[1].fetch \in {"http_error", "network_error", "not_started"}
    /\ req[1].res = Res(200, "")
    /\ store # <<>>


----------------------------------------------------------------------------
(* The labels of the admin page.                                            *)

KnownPrefixes ==
    {"community", "comm", "success", "advocacy", "decision", "safety"}

\* C12 (as stated): every question with a valid answer is in the summary
\* whatever its prefix; every row of the admin page whose key has a prefix
\* outside the six known ones carries the category label "Other", in every
\* script; a row whose last segment is not elem/ms/hs carries the building
\* label "All / N/A".
C12_UnknownPrefixLabelledOther ==
    /\ lastRes.hasSummary =>
          \A k \in ScaleKeys :
              ValidRows(k) # {} => k \in DOMAIN lastRes.summary.questions
    /\ \A row \in dashboard :
          /\ row.key[1] \notin KnownPrefixes => row.categoryLabel = "Other"
          /\ row.key[Len(row.key)] \notin BuildingCodes
                => row.buildingLabel = AllNA

\* The part of C12 that holds of both scripts: numeric aggregation and the
\* building label; and the category label of the third script
C12_BuildingLabelAndThirdScript ==
    /\ lastRes.hasSummary =>
          \A k \in ScaleKeys :
              ValidRows(k) # {} => k \in DOMAIN lastRes.summary.questions
    /\ \A row \in dashboard :
          /\ (row.script = 3 /\ row.key[1] \notin KnownPrefixes)
                => row.categoryLabel = "Other"
          /\ row.key[Len(row.key)] \notin BuildingCodes
                => row.buildingLabel = AllNA


----------------------------------------------------------------------------
(* The histogram.                                                           *)

\* The integer buckets 1..5 (in tenths)
Buckets == {10, 20, 30, 40, 50}

\* C13 (as stated): the histogram of every question of every summary has
\* exactly the buckets 1..5 and their counts add up to responses, so a
\* non-integer accepted value is counted in one of them; the counts the
\* admin page shows add up to responses as well.
C13_HistogramBucketsOneToFive ==
    /\ lastRes.hasSummary =>
          \A k \in DOMAIN lastRes.summary.questions :
              LET q == lastRes.summary.questions[k]
              IN  /\ DOMAIN q.counts = Buckets
                  /\ q.counts[10] + q.counts[20] + q.counts[30] +
                     q.counts[40] + q.counts[50] = q.responses
    /\ \A row \in dashboard :
          row.countsStr[1] + row.countsStr[2] + row.countsStr[3] +
          row.countsStr[4] + row.countsStr[5] = row.responses

\* What the code does instead: each accepted value is counted in the bucket
\* of the value itself, so the counts of all buckets add up to responses
C13_HistogramBucketPerValue ==
    lastRes.hasSummary =>
        \A k \in DOMAIN lastRes.summary.questions :
            LET q == lastRes.summary.questions[k]
            IN  /\ Buckets \subseteq DOMAIN q.counts
                /\ \A c \in DOMAIN q.counts :
                      q.counts[c] =
                          Cardinality({i \in ValidRows(k) : AnswerOf(i, k) = c})


----------------------------------------------------------------------------
(* Free text.                                                               *)

\* The keys ending in "_free" of the stored submissions
FreeKeys ==
    {k \in UNION {DOMAIN OwnRows[i].payload : i \in 1..Len(OwnRows)} :
        Len(k) >= 2 /\ k[Len(k)] = "free"}

\* The text of a value: String(v) without the surrounding white space
TextOf(v) == IF v.t = "null" THEN <<>> ELSE Trim(ToJsString(v))

\* The non-empty texts under key k of the first n stored submissions, in
\* the order the rows are read
RECURSIVE TextsOf(_, _)
TextsOf(k, n) ==
    IF n = 0 THEN <<>>
    ELSE IF k \in DOMAIN OwnRows[n].payload /\ TextOf(OwnRows[n].payload[k]) # <<>>
    THEN Append(TextsOf(k, n - 1), TextOf(OwnRows[n].payload[k]))
    ELSE TextsOf(k, n - 1)

\* C14: in every summary sent, freeText has an entry exactly for the keys
\* ending in "_free" with at least one value that is not empty after
\* trimming; the entry holds those trimmed values in the order the rows were
\* read, all in the bucket 'All / N/A', and responses is their number; a
\* "_free" key is never a question, whatever its value looks like.
C14_FreeTextCollected ==
    lastRes.hasSummary =>
        /\ DOMAIN lastRes.summary.freeText =
              {k \in FreeKeys : TextsOf(k, Len(OwnRows)) # <<>>}
        /\ \A k \in DOMAIN lastRes.summary.freeText :
              /\ lastRes.summary.freeText[k].byBuilding =
                    (AllNA :> TextsOf(k, Len(OwnRows)))
              /\ lastRes.summary.freeText[k].responses =
                    Len(TextsOf(k, Len(OwnRows)))
              /\ lastRes.summary.freeText[k].key = k
        /\ \A k \in FreeKeys : k \notin DOMAIN lastRes.summary.questions

\* A summary with the texts "ok" (trimmed) and "4" (a number) under one key,
\* in that order, and a key whose only value is empty
C14_Witness ==
    /\ lastRes.hasSummary
    /\ <<"community", "free">> \in DOMAIN lastRes.summary.freeText
    /\ lastRes.summary.freeText[<<"community", "free">>].byBuilding[AllNA] =
          << <<"o", "k">>, <<"4">> >>
    /\ <<"safety", "free">> \in FreeKeys
    /\ <<"safety", "free">> \notin DOMAIN lastRes.summary.freeText


----------------------------------------------------------------------------
(* The stored submissions between two resets.                               *)

\* table is the beginning of table2: every row of table is in table2, in
\* its place and unchanged
IsPrefix(table, table2) ==
    /\ Len(table) <= Len(table2)
    /\ \A i \in 1..Len(table) : table2[i] = table[i]

\* C15: a row that is stored is never changed or removed by a step other
\* than a successful reset; in every other step the table stays as it is or
\* gains exactly one row at its end, and it gains one exactly when a submit
\* is answered {ok: true}.
C15_RowsImmutableUntilReset ==
    [][ /\ ~IsPrefix(store, store') => lastRes' = ResetOk /\ store' = <<>>
        /\ IsPrefix(store, store') =>
              /\ Len(store') <= Len(store) + 1
              /\ Len(store') = Len(store) + 1 <=>
                    \E r \in Slots :
                        /\ req[r].pc = "insert"
                        /\ req'[r].pc = "done"
                        /\ req'[r].res = Ok
                        /\ store'[Len(store')] =
                              Row(SURVEY_ID, req[r].ip_hash, req[r].payload)
        /\ lastRes'.route \in {"/health", "/summary", "/admin/summary", "/myip"}
              => store' = store ]_vars

\* An accepted submission was stored after the two rows the table started
\* with, a later submission was turned down as a duplicate, a summary was
\* sent, and the three rows are there
C15_Witness ==
    /\ Len(store) = 3
    /\ nreq = 2
    /\ req[1].res = Duplicate
    /\ lastRes.hasSummary
    /\ lastRes.summary.totalSubmissions = 2


----------------------------------------------------------------------------
(* The response of POST /submit and the store.                              *)

ServerError == Res(500, "server_error")

\* Slot r sends its response in this step
Answers(r) == req[r].pc # "done" /\ req'[r].pc = "done"

\* C16: a POST /submit is answered exactly once: no response before the
\* handler is done, one of the four responses when it is, none after, and,
\* its storage calls settling, it is answered.  A storage call that fails
\* for another reason than the uniqueness constraint is answered with
\* exactly {error: 'server_error'} and status 500, and adds no row.  The
\* request adds its row if and only if it is answered {ok: true}.
C16_OneResponseAgreesWithStore ==
    /\ [][\A r \in Slots :
            /\ req'[r].pc # "done" => req'[r].res = NoRes
            /\ Answers(r) =>
                  /\ req'[r].res \in {Res(400, "invalid_payload"), Duplicate,
                                      ServerError, Ok}
                  /\ req'[r].res = Ok <=>
                        store' = Append(store, Row(SURVEY_ID, req[r].ip_hash,
                                                   req[r].payload))
                  /\ req'[r].res # Ok => store' = store
            /\ (req[r].pc = "done" /\ nreq' = nreq)
                  => req'[r].res = req[r].res
            /\ (SubmitEnsureSchema(r, FALSE) \/ SubmitInsert(r, FALSE))
                  => req'[r].res = ServerError /\ store' = store]_vars
    /\ (req[1].pc \in {"ensureSchema", "insert"}) ~> (req[1].pc = "done")

\* After an accepted submission, a second one met a storage failure and was
\* answered 500 with the table as the first one left it
C16_Witness ==
    /\ nreq = 2
    /\ req[1].pc = "done"
    /\ req[1].res = ServerError
    /\ Len(accepted) = Len(store)
    /\ Len(store) = 1


----------------------------------------------------------------------------
(* The summary as a read of the store.                                      *)

SummaryRoutes == {"/summary", "/admin/summary"}

----------------------------------------------------------------------------
(* The totals of a summary.                                                 *)

\* C18: in every summary sent, totalSubmissions is the number of
\* submissions accepted for SURVEY_ID since the last reset (rows of other
\* survey ids apart, submissions without a valid field included), and every
\* question has responses <= totalSubmissions and
\* responses <= sum <= 5 * responses.
C18_TotalsAndBounds ==
    lastRes.hasSummary =>
        /\ lastRes.summary.totalSubmissions = Len(accepted)
        /\ lastRes.summary.totalSubmissions = Len(OwnRows)
        /\ \A k \in DOMAIN lastRes.summary.questions :
              LET q == lastRes.summary.questions[k]
              IN  /\ q.responses <= lastRes.summary.totalSubmissions
                  /\ 10 * q.responses <= q.sum
                  /\ q.sum <= 50 * q.responses

\* After a reset removed the rows the table started with, two submissions
\* were accepted, one of them without any field, and the summary counts two
C18_Witness ==
    /\ lastRes.hasSummary
    /\ lastRes.summary.totalSubmissions = 2
    /\ Len(store) = 2
    /\ Ip21 \in everAccepted
    /\ \E i \in 1..Len(store) : store[i].payload = NoFields
    /\ \E k \in DOMAIN lastRes.summary.questions :
          lastRes.summary.questions[k].responses = 1


====
